---- MODULE Spec2Model ----
(***************************************************************************)
(* Position / P&L aggregation of the trading journal (src/helpers.ts):     *)
(* calculatePositions and getMonthlyStats, run record by record over a     *)
(* trade collection.                                                       *)
(*                                                                         *)
(* Numbers: quantities, prices and amounts are integers (KRW); the         *)
(* quotients the code forms (avgBuyPrice, realizedPnL, pnl) are exact      *)
(* rationals [n, d] in lowest terms with d > 0.  IEEE rounding of the      *)
(* JavaScript doubles is not modelled.                                     *)
(*                                                                         *)
(* Dates: a "YYYY-MM-DD" string is the record [ym, dd]: ym numbers the     *)
(* calendar months consecutively ("YYYY-MM", the first 7 characters), dd   *)
(* is the day.  String order on well-formed dates is the order on          *)
(* (ym, dd).                                                               *)
(***************************************************************************)
EXTENDS Integers, Sequences, FiniteSets, TLC

VARIABLES
    trades,     \* the trade collection handed to both aggregators
    pc,         \* position of the aggregation pass
    sorted,     \* the date-sorted copy the running function folds over
    i,          \* index of the next record of the running loop
    posMap,     \* calculatePositions: Map key -> StockPosition
    cpResult,   \* value returned by calculatePositions
    avgPrices,  \* getMonthlyStats: Map key -> {totalCost, totalQty}
    positions,  \* getMonthlyStats: Map key -> average buy price
    monthMap,   \* getMonthlyStats: Map month -> {buyAmount, sellAmount, pnl, count}
    msResult,   \* value returned by getMonthlyStats
    calls,      \* the earlier renders: their collection and what the aggregators returned
    dayTrades,  \* getDaySummary: the records of the selected day
    dayPc,      \* getDaySummary: position of the call
    dayI,       \* getDaySummary: index of the next record of the loop
    computed,   \* getDaySummary: c, what getTradeComputed returned for the last record
    dayAcc,     \* getDaySummary: totalBuy, totalSell, totalPnl, returns
    daySummary, \* value returned by getDaySummary
    totalAvgReturn, \* Dashboard: avgReturnPct(rtTrades)
    appTrades,  \* App: the trade store (useLocalStorage)
    isFormOpen, \* App: the trade form is shown
    editingTrade,    \* App: the record being edited, <<>> for null
    initialFormDate, \* App: the date a new record starts with, <<>> for null
    nextId,     \* generateId: the next identifier it hands out
    appCall,    \* App: the handler that ran last and its argument
    settingsTabs,     \* App: settings.tabs, tab id -> visible
    settingsSections, \* App: settings.dashboardSections
    activeTab,        \* App: the tab shown
    effectPending,    \* App: the visibility effect has yet to run for this render
    draftTabs,        \* Settings: draft.tabs, tab id -> visible
    draftSections,    \* Settings: draft.dashboardSections, an array of [id, order]
    hasChanges,       \* Settings: the draft was marked changed
    setCall,          \* Settings: the handler that ran last and its arguments
    retryCount,       \* NewsFeed: retryCount
    retryTimer,       \* NewsFeed: the 30-second retry timeout is armed
    retryEffectDue,   \* NewsFeed: retryCount changed and its effect has yet to run
    cacheUsable,      \* NewsFeed: getCachedNews() would return items
    inFlight,         \* NewsFeed: number of fetchNews calls awaiting their response
    retriesArmed,     \* NewsFeed: retry timeouts armed since the last successful fetch
    fetchOutcome      \* NewsFeed: how the fetchNews call that finished last ended

dayVars == <<dayTrades, dayPc, dayI, computed, dayAcc, daySummary, totalAvgReturn>>

appVars == <<appTrades, isFormOpen, editingTrade, initialFormDate, nextId, appCall>>

setVars == <<settingsTabs, settingsSections, activeTab, effectPending, draftTabs,
            draftSections, hasChanges, setCall>>

newsVars == <<retryCount, retryTimer, retryEffectDue, cacheUsable, inFlight, retriesArmed,
             fetchOutcome>>

\* the state of the components around the aggregators
uiVars == <<appVars, setVars, newsVars>>

vars == <<trades, pc, sorted, i, posMap, cpResult, avgPrices, positions, monthMap, msResult,
          calls, dayTrades, dayPc, dayI, computed, dayAcc, daySummary, totalAvgReturn,
          appTrades, isFormOpen, editingTrade, initialFormDate, nextId, appCall,
          settingsTabs, settingsSections, activeTab, effectPending, draftTabs,
          draftSections, hasChanges, setCall,
          retryCount, retryTimer, retryEffectDue, cacheUsable, inFlight, retriesArmed,
          fetchOutcome>>

----------------------------------------------------------------------------
\* Bounds of the model

\* longest trade collection of the small-history specification
MaxTrades == 3
\* number of freely chosen records added to a long monthly history
MaxFree == 2
\* last month a long monthly history can reach
MaxHist == 14

\* longest trade collection of the repeated-render specification
MaxRerunTrades == 2
\* number of renders of the repeated-render specification
MaxRenders == 3
\* most records of one calendar day
MaxDay == 2
\* last identifier generateId hands out
MaxAppId == 3
\* number of dashboard sections of the settings
NumSections == 4
\* most fetchNews calls awaiting their response at a time
MaxInFlight == 2
\* largest retryCount the failures are followed to
MaxRetryCount == 5

\* slice(-12): number of month buckets getMonthlyStats returns
MonthLimit == 12

----------------------------------------------------------------------------
\* Exact rational arithmetic for JavaScript number division

Abs(x) == IF x < 0 THEN -x ELSE x

RECURSIVE GCD(_, _)
GCD(a, b) == IF b = 0 THEN a ELSE GCD(b, a % b)

\* n / d in lowest terms, d # 0
Rat(n, d) ==
    LET s == IF d < 0 THEN -1 ELSE 1
        g == GCD(Abs(n), Abs(d))
    IN  [n |-> (s * n) \div g, d |-> (s * d) \div g]

RInt(k) == [n |-> k, d |-> 1]
RAdd(x, y) == Rat(x.n * y.d + y.n * x.d, x.d * y.d)
RSub(x, y) == Rat(x.n * y.d - y.n * x.d, x.d * y.d)
RMul(x, y) == Rat(x.n * y.n, x.d * y.d)

----------------------------------------------------------------------------
\* JavaScript Map: entries in insertion order, set() replaces in place

MapHas(m, k) == \E j \in 1..Len(m) : m[j].key = k
MapIdx(m, k) == CHOOSE j \in 1..Len(m) : m[j].key = k
MapGet(m, k) == m[MapIdx(m, k)].val
MapSet(m, k, v) ==
    IF MapHas(m, k) THEN [m EXCEPT ![MapIdx(m, k)].val = v]
    ELSE Append(m, [key |-> k, val |-> v])
MapKeys(m) == {m[j].key : j \in 1..Len(m)}
MapValues(m) == [j \in 1..Len(m) |-> m[j].val]

----------------------------------------------------------------------------
\* Trade records

\* a.date.localeCompare(b.date) on "YYYY-MM-DD" strings
DateCompare(a, b) ==
    IF a.ym # b.ym THEN (IF a.ym < b.ym THEN -1 ELSE 1)
    ELSE IF a.dd # b.dd THEN (IF a.dd < b.dd THEN -1 ELSE 1)
    ELSE 0

\* variant: the collection is folded as given, without the sort
Unsorted(ts) == ts

\* variant: a sort that is not stable, a record going before the records of
\* its date that came earlier
RECURSIVE SortByDateTiesReversed(_)
SortByDateTiesReversed(ts) ==
    IF ts = <<>> THEN <<>>
    ELSE LET n == Len(ts)
             init == SortByDateTiesReversed(SubSeq(ts, 1, n - 1))
             x == ts[n]
             k == Cardinality({j \in 1..Len(init) : DateCompare(init[j].date, x.date) < 0})
         IN  SubSeq(init, 1, k) \o <<x>> \o SubSeq(init, k + 1, Len(init))

\* [...trades].sort(by date): Array.prototype.sort is stable
RECURSIVE SortByDate(_)
SortByDate(ts) ==
    IF ts = <<>> THEN <<>>
    ELSE LET n == Len(ts)
             init == SortByDate(SubSeq(ts, 1, n - 1))
             x == ts[n]
             k == Cardinality({j \in 1..Len(init) : DateCompare(init[j].date, x.date) <= 0})
         IN  SubSeq(init, 1, k) \o <<x>> \o SubSeq(init, k + 1, Len(init))

\* variant: the key is the stock name alone
StockKeyByName(trade) == trade.stockName

\* trade.stockCode || trade.stockName
StockKey(trade) == IF trade.stockCode # "" THEN trade.stockCode ELSE trade.stockName

\* trade.date.slice(0, 7)
MonthOf(date) == date.ym

----------------------------------------------------------------------------
\* calculatePositions

NewPosition(trade) ==
    [stockName |-> trade.stockName, stockCode |-> trade.stockCode,
     buyQuantity |-> 0, sellQuantity |-> 0, holdingQuantity |-> 0,
     avgBuyPrice |-> RInt(0), totalBuyCost |-> 0, totalSellRevenue |-> 0,
     realizedPnL |-> RInt(0)]

\* variant of the buy branch: the average is formed with the quantity held
\* before this buy
ApplyBuyStaleQuantity(pos, trade) ==
    LET cost == trade.price * trade.quantity
        tbc == pos.totalBuyCost + cost
        bq == pos.buyQuantity + trade.quantity
    IN  [pos EXCEPT !.totalBuyCost = tbc,
                    !.buyQuantity = bq,
                    !.avgBuyPrice = IF pos.buyQuantity > 0 THEN Rat(tbc, pos.buyQuantity)
                                    ELSE RInt(0)]

\* variant of the buy branch: the cost of a buy is its price, whatever the
\* quantity
ApplyBuyUnitCost(pos, trade) ==
    LET cost == trade.price
        tbc == pos.totalBuyCost + cost
        bq == pos.buyQuantity + trade.quantity
    IN  [pos EXCEPT !.totalBuyCost = tbc,
                    !.buyQuantity = bq,
                    !.avgBuyPrice = IF bq > 0 THEN Rat(tbc, bq) ELSE RInt(0)]

\* the buy branch
ApplyBuy(pos, trade) ==
    LET cost == trade.price * trade.quantity
        tbc == pos.totalBuyCost + cost
        bq == pos.buyQuantity + trade.quantity
    IN  [pos EXCEPT !.totalBuyCost = tbc,
                    !.buyQuantity = bq,
                    !.avgBuyPrice = IF bq > 0 THEN Rat(tbc, bq) ELSE RInt(0)]

\* variant of the else branch: the cost basis is taken on the whole bought
\* quantity instead of the sold one
ApplySellByBoughtQuantity(pos, trade) ==
    LET revenue == trade.price * trade.quantity
        costBasis == RMul(pos.avgBuyPrice, RInt(pos.buyQuantity))
    IN  [pos EXCEPT !.totalSellRevenue = @ + revenue,
                    !.sellQuantity = @ + trade.quantity,
                    !.realizedPnL = RAdd(@, RSub(RInt(revenue), costBasis))]

\* variant of the else branch: a sell also takes its quantity out of the
\* bought pool
ApplySellReducesPool(pos, trade) ==
    LET revenue == trade.price * trade.quantity
        costBasis == RMul(pos.avgBuyPrice, RInt(trade.quantity))
    IN  [pos EXCEPT !.totalSellRevenue = @ + revenue,
                    !.sellQuantity = @ + trade.quantity,
                    !.buyQuantity = @ - trade.quantity,
                    !.realizedPnL = RAdd(@, RSub(RInt(revenue), costBasis))]

\* variant of the else branch: without an average the sell's own price is the
\* cost, as in getMonthlyStats
ApplySellFallbackPrice(pos, trade) ==
    LET revenue == trade.price * trade.quantity
        avg == IF pos.avgBuyPrice.n # 0 THEN pos.avgBuyPrice ELSE RInt(trade.price)
        costBasis == RMul(avg, RInt(trade.quantity))
    IN  [pos EXCEPT !.totalSellRevenue = @ + revenue,
                    !.sellQuantity = @ + trade.quantity,
                    !.realizedPnL = RAdd(@, RSub(RInt(revenue), costBasis))]

\* variant of the else branch: no more than the held quantity is sold
ApplySellCappedAtHolding(pos, trade) ==
    LET held == IF pos.holdingQuantity > 0 THEN pos.holdingQuantity ELSE 0
        qty == IF trade.quantity > held THEN held ELSE trade.quantity
        revenue == trade.price * qty
        costBasis == RMul(pos.avgBuyPrice, RInt(qty))
    IN  [pos EXCEPT !.totalSellRevenue = @ + revenue,
                    !.sellQuantity = @ + qty,
                    !.realizedPnL = RAdd(@, RSub(RInt(revenue), costBasis))]

\* the else branch (every record that is not a buy)
ApplySell(pos, trade) ==
    LET revenue == trade.price * trade.quantity
        costBasis == RMul(pos.avgBuyPrice, RInt(trade.quantity))
    IN  [pos EXCEPT !.totalSellRevenue = @ + revenue,
                    !.sellQuantity = @ + trade.quantity,
                    !.realizedPnL = RAdd(@, RSub(RInt(revenue), costBasis))]

\* variant: the holding is clamped at zero on an over-sell
SetHoldingClamped(pos) ==
    [pos EXCEPT !.holdingQuantity = IF pos.buyQuantity > pos.sellQuantity
                                    THEN pos.buyQuantity - pos.sellQuantity ELSE 0]

\* pos.holdingQuantity = pos.buyQuantity - pos.sellQuantity
SetHolding(pos) == [pos EXCEPT !.holdingQuantity = pos.buyQuantity - pos.sellQuantity]

\* variant of the loop body: every new key is given the same position object,
\* so all keys share one position
FoldTradeSharedPosition(pm, trade) ==
    LET key == StockKey(trade)
        pos == IF Len(pm) > 0 THEN pm[1].val ELSE NewPosition(trade)
        upd == SetHolding(IF trade.type = "buy" THEN ApplyBuy(pos, trade)
                          ELSE ApplySell(pos, trade))
        all == [j \in 1..Len(pm) |-> [key |-> pm[j].key, val |-> upd]]
    IN  IF MapHas(pm, key) THEN all ELSE Append(all, [key |-> key, val |-> upd])

\* one iteration of the loop over sorted
FoldTrade(pm, trade) ==
    LET key == StockKey(trade)
        pos == IF MapHas(pm, key) THEN MapGet(pm, key) ELSE NewPosition(trade)
        upd == IF trade.type = "buy" THEN ApplyBuy(pos, trade) ELSE ApplySell(pos, trade)
    IN  MapSet(pm, key, SetHolding(upd))

\* posMap after the first n records of a sorted list
RECURSIVE FoldPositions(_, _)
FoldPositions(srt, n) ==
    IF n = 0 THEN <<>> ELSE FoldTrade(FoldPositions(srt, n - 1), srt[n])

calculatePositions(ts) ==
    LET srt == SortByDate(ts) IN MapValues(FoldPositions(srt, Len(srt)))

----------------------------------------------------------------------------
\* getMonthlyStats

\* one iteration of the first loop: the running totals and the average per key
AvgStep(st, trade) ==
    IF trade.type = "buy" THEN
        LET key == StockKey(trade)
            old == IF MapHas(st.avgPrices, key) THEN MapGet(st.avgPrices, key)
                   ELSE [totalCost |-> 0, totalQty |-> 0]
            existing == [totalCost |-> old.totalCost + trade.price * trade.quantity,
                         totalQty |-> old.totalQty + trade.quantity]
        IN  [avgPrices |-> MapSet(st.avgPrices, key, existing),
             positions |-> MapSet(st.positions, key, Rat(existing.totalCost, existing.totalQty))]
    ELSE st

\* variant: a key without an average falls back to 0 instead of the sell's
\* own price
SellAvgPriceOrZero(pm, trade) ==
    LET key == StockKey(trade)
    IN  IF MapHas(pm, key) THEN MapGet(pm, key) ELSE RInt(0)

\* positions.get(key) || trade.price
SellAvgPrice(pm, trade) ==
    LET key == StockKey(trade)
    IN  IF MapHas(pm, key) /\ MapGet(pm, key).n # 0 THEN MapGet(pm, key)
        ELSE RInt(trade.price)

\* variant of the second loop's body: only sells are counted
BucketStepCountsSells(mm, pm, trade) ==
    LET month == MonthOf(trade.date)
        old == IF MapHas(mm, month) THEN MapGet(mm, month)
               ELSE [buyAmount |-> 0, sellAmount |-> 0, pnl |-> RInt(0), count |-> 0]
        amount == trade.price * trade.quantity
        upd == IF trade.type = "buy"
               THEN [old EXCEPT !.buyAmount = @ + amount]
               ELSE [old EXCEPT !.sellAmount = @ + amount,
                                !.pnl = RAdd(@, RMul(RSub(RInt(trade.price), SellAvgPrice(pm, trade)),
                                                     RInt(trade.quantity))),
                                !.count = @ + 1]
    IN  MapSet(mm, month, upd)

\* one iteration of the second loop: the month bucket of the record
BucketStep(mm, pm, trade) ==
    LET month == MonthOf(trade.date)
        old == IF MapHas(mm, month) THEN MapGet(mm, month)
               ELSE [buyAmount |-> 0, sellAmount |-> 0, pnl |-> RInt(0), count |-> 0]
        amount == trade.price * trade.quantity
        upd == IF trade.type = "buy"
               THEN [old EXCEPT !.buyAmount = @ + amount]
               ELSE [old EXCEPT !.sellAmount = @ + amount,
                                !.pnl = RAdd(@, RMul(RSub(RInt(trade.price), SellAvgPrice(pm, trade)),
                                                     RInt(trade.quantity)))]
    IN  MapSet(mm, month, [upd EXCEPT !.count = @ + 1])

\* Array.from(monthMap.entries()).map(([month, stats]) => ({month, ...stats}))
MonthEntries(mm) ==
    [j \in 1..Len(mm) |->
        [month |-> mm[j].key, buyAmount |-> mm[j].val.buyAmount,
         sellAmount |-> mm[j].val.sellAmount, pnl |-> mm[j].val.pnl,
         count |-> mm[j].val.count]]

\* .sort((a, b) => a.month.localeCompare(b.month))
RECURSIVE SortByMonth(_)
SortByMonth(es) ==
    IF es = <<>> THEN <<>>
    ELSE LET n == Len(es)
             init == SortByMonth(SubSeq(es, 1, n - 1))
             x == es[n]
             k == Cardinality({j \in 1..Len(init) : init[j].month <= x.month})
         IN  SubSeq(init, 1, k) \o <<x>> \o SubSeq(init, k + 1, Len(init))

\* variant: .slice(0, n)
FirstN(s, n) == SubSeq(s, 1, IF Len(s) > n THEN n ELSE Len(s))

\* .slice(-n)
LastN(s, n) == SubSeq(s, IF Len(s) > n THEN Len(s) - n + 1 ELSE 1, Len(s))

\* the return expression
MonthlyResult(mm) == LastN(SortByMonth(MonthEntries(mm)), MonthLimit)

RECURSIVE FoldAvg(_, _)
FoldAvg(srt, n) ==
    IF n = 0 THEN [avgPrices |-> <<>>, positions |-> <<>>]
    ELSE AvgStep(FoldAvg(srt, n - 1), srt[n])

RECURSIVE FoldBuckets(_, _, _)
FoldBuckets(srt, pm, n) ==
    IF n = 0 THEN <<>> ELSE BucketStep(FoldBuckets(srt, pm, n - 1), pm, srt[n])

getMonthlyStats(ts) ==
    LET srt == SortByDate(ts)
        pm == FoldAvg(srt, Len(srt)).positions
    IN  MonthlyResult(FoldBuckets(srt, pm, Len(srt)))

----------------------------------------------------------------------------
\* Inputs

Stocks == {[stockName |-> "X", stockCode |-> ""], [stockName |-> "X", stockCode |-> "C1"]}

\* side, quantity and price of a record: two buys whose average (40/3) is no
\* whole number, and a sell that over-sells a single small buy
Orders ==
    {[type |-> "buy", quantity |-> 1, price |-> 10],
     [type |-> "buy", quantity |-> 2, price |-> 15],
     [type |-> "sell", quantity |-> 2, price |-> 12]}

Date(ym, dd) == [ym |-> ym, dd |-> dd]
Dates == {Date(1, 1), Date(1, 2), Date(2, 1)}
HistDates == {Date(1, 1), Date(MonthLimit + 1, 1)}

Trade(date, stock, order) ==
    [date |-> date, stockName |-> stock.stockName, stockCode |-> stock.stockCode,
     type |-> order.type, quantity |-> order.quantity, price |-> order.price]

TradesOn(ds) == {Trade(d, s, o) : d \in ds, s \in Stocks, o \in Orders}

SeqsUpTo(S, n) == UNION {[1..k -> S] : k \in 0..n}

\* one buy of "C1" on the first day of every month lo..hi
History(lo, hi) ==
    [j \in 1..(IF hi >= lo THEN hi - lo + 1 ELSE 0) |->
        Trade(Date(lo + j - 1, 1), [stockName |-> "X", stockCode |-> "C1"],
              [type |-> "buy", quantity |-> 1, price |-> 10])]

----------------------------------------------------------------------------
\* The aggregation pass of a render: calculatePositions(trades), then
\* getMonthlyStats(trades)

\* no day summary is being computed
DayIdle ==
    /\ dayTrades = <<>>
    /\ dayPc = "idle"
    /\ dayI = 1
    /\ computed = <<>>
    /\ dayAcc = <<>>
    /\ daySummary = <<>>
    /\ totalAvgReturn = <<>>

\* App as mounted with an empty store and the form closed
AppIdle ==
    /\ appTrades = <<>>
    /\ isFormOpen = FALSE
    /\ editingTrade = <<>>
    /\ initialFormDate = <<>>
    /\ nextId = 1
    /\ appCall = <<>>

TabIds == {"dashboard", "trades", "portfolio", "settings"}

\* DEFAULT_SETTINGS.tabs: every tab visible
DefaultTabs == [t \in TabIds |-> TRUE]

\* DEFAULT_SETTINGS.dashboardSections: order 0, 1, 2, ... in array order
DefaultSections == [j \in 1..NumSections |-> [id |-> j, order |-> j - 1]]

\* App and Settings before any handler runs
SetIdle ==
    /\ settingsTabs = DefaultTabs
    /\ settingsSections = DefaultSections
    /\ activeTab = "dashboard"
    /\ effectPending = FALSE
    /\ draftTabs = DefaultTabs
    /\ draftSections = DefaultSections
    /\ hasChanges = FALSE
    /\ setCall = <<>>

\* NewsFeed not mounted
NewsIdle ==
    /\ retryCount = 0
    /\ retryTimer = FALSE
    /\ retryEffectDue = FALSE
    /\ cacheUsable = FALSE
    /\ inFlight = 0
    /\ retriesArmed = 0
    /\ fetchOutcome = ""

UiIdle == AppIdle /\ SetIdle /\ NewsIdle

\* no aggregator has run
AggIdle ==
    /\ pc = "cp_begin"
    /\ sorted = <<>>
    /\ i = 1
    /\ posMap = <<>>
    /\ cpResult = <<>>
    /\ avgPrices = <<>>
    /\ positions = <<>>
    /\ monthMap = <<>>
    /\ msResult = <<>>
    /\ calls = <<>>

InitLocals ==
    /\ DayIdle
    /\ UiIdle
    /\ AggIdle

Init ==
    /\ trades \in SeqsUpTo(TradesOn(Dates), MaxTrades)
    /\ InitLocals

InitHist ==
    /\ \E hi \in (MonthLimit - 1)..MaxHist :
         \E free \in SeqsUpTo(TradesOn(HistDates), MaxFree) :
            trades = History(2, hi) \o free
    /\ InitLocals

\* variant: posMap lives outside the function and is not made anew
CP_BeginKeepsMap ==
    /\ pc = "cp_begin"
    /\ sorted' = SortByDate(trades)
    /\ i' = 1
    /\ pc' = "cp_loop"
    /\ UNCHANGED <<dayVars, uiVars>>
    /\ UNCHANGED <<calls, trades, posMap, cpResult, avgPrices, positions, monthMap, msResult>>

CP_Begin ==
    /\ pc = "cp_begin"
    /\ posMap' = <<>>
    /\ sorted' = SortByDate(trades)
    /\ i' = 1
    /\ pc' = "cp_loop"
    /\ UNCHANGED <<dayVars, uiVars>>
    /\ UNCHANGED <<calls, trades, cpResult, avgPrices, positions, monthMap, msResult>>

CP_Fold ==
    /\ pc = "cp_loop"
    /\ i <= Len(sorted)
    /\ posMap' = FoldTrade(posMap, sorted[i])
    /\ i' = i + 1
    /\ UNCHANGED <<dayVars, uiVars>>
    /\ UNCHANGED <<calls, trades, pc, sorted, cpResult, avgPrices, positions, monthMap, msResult>>

CP_Return ==
    /\ pc = "cp_loop"
    /\ i > Len(sorted)
    /\ cpResult' = MapValues(posMap)
    /\ pc' = "ms_begin"
    /\ UNCHANGED <<dayVars, uiVars>>
    /\ UNCHANGED <<calls, trades, sorted, i, posMap, avgPrices, positions, monthMap, msResult>>

MS_Begin ==
    /\ pc = "ms_begin"
    /\ monthMap' = <<>>
    /\ positions' = <<>>
    /\ avgPrices' = <<>>
    /\ sorted' = SortByDate(trades)
    /\ i' = 1
    /\ pc' = "ms_avg"
    /\ UNCHANGED <<dayVars, uiVars>>
    /\ UNCHANGED <<calls, trades, posMap, cpResult, msResult>>

MS_Avg ==
    /\ pc = "ms_avg"
    /\ i <= Len(sorted)
    /\ LET st == AvgStep([avgPrices |-> avgPrices, positions |-> positions], sorted[i])
       IN  /\ avgPrices' = st.avgPrices
           /\ positions' = st.positions
    /\ i' = i + 1
    /\ UNCHANGED <<dayVars, uiVars>>
    /\ UNCHANGED <<calls, trades, pc, sorted, posMap, cpResult, monthMap, msResult>>

MS_AvgDone ==
    /\ pc = "ms_avg"
    /\ i > Len(sorted)
    /\ i' = 1
    /\ pc' = "ms_loop"
    /\ UNCHANGED <<dayVars, uiVars>>
    /\ UNCHANGED <<calls, trades, sorted, posMap, cpResult, avgPrices, positions, monthMap, msResult>>

MS_Bucket ==
    /\ pc = "ms_loop"
    /\ i <= Len(sorted)
    /\ monthMap' = BucketStep(monthMap, positions, sorted[i])
    /\ i' = i + 1
    /\ UNCHANGED <<dayVars, uiVars>>
    /\ UNCHANGED <<calls, trades, pc, sorted, posMap, cpResult, avgPrices, positions, msResult>>

MS_Return ==
    /\ pc = "ms_loop"
    /\ i > Len(sorted)
    /\ msResult' = MonthlyResult(monthMap)
    /\ pc' = "done"
    /\ UNCHANGED <<dayVars, uiVars>>
    /\ UNCHANGED <<calls, trades, sorted, i, posMap, cpResult, avgPrices, positions, monthMap>>

Next ==
    \/ CP_Begin
    \/ CP_Fold
    \/ CP_Return
    \/ MS_Begin
    \/ MS_Avg
    \/ MS_AvgDone
    \/ MS_Bucket
    \/ MS_Return

Spec == Init /\ [][Next]_vars

SpecHist == InitHist /\ [][Next]_vars

\* collections on two dates, for the comparison of a collection with its
\* permutations
ShuffleDates == {Date(1, 1), Date(2, 1)}

InitShuffle ==
    /\ trades \in SeqsUpTo(TradesOn(ShuffleDates), MaxTrades)
    /\ InitLocals

SpecShuffle == InitShuffle /\ [][Next]_vars

\* collections whose stock names and codes overlap: a name with and without
\* a code, a code under two names, a name that reads like a code
KeyStocks ==
    {[stockName |-> "X", stockCode |-> ""],
     [stockName |-> "X", stockCode |-> "C1"],
     [stockName |-> "Y", stockCode |-> "C1"],
     [stockName |-> "C1", stockCode |-> ""],
     [stockName |-> "C1", stockCode |-> "C1"]}

KeyOrders ==
    {[type |-> "buy", quantity |-> 1, price |-> 10],
     [type |-> "sell", quantity |-> 2, price |-> 12]}

InitKeys ==
    /\ trades \in SeqsUpTo({Trade(d, s, o) : d \in ShuffleDates, s \in KeyStocks, o \in KeyOrders},
                            MaxTrades)
    /\ InitLocals

SpecKeys == InitKeys /\ [][Next]_vars

\* a collection that mixes buys and sells of one stock with roundtrip records:
\* Dashboard hands the whole collection to the aggregators and filters the
\* roundtrips only afterwards.  The roundtrip carries a price, so that the
\* products of the fold are numbers.
MixedOrders ==
    {[type |-> "buy", quantity |-> 1, price |-> 10],
     [type |-> "sell", quantity |-> 2, price |-> 12],
     [type |-> "roundtrip", quantity |-> 1, price |-> 12]}

InitMixed ==
    /\ trades \in SeqsUpTo({Trade(d, [stockName |-> "X", stockCode |-> "C1"], o) :
                               d \in ShuffleDates, o \in MixedOrders}, MaxTrades)
    /\ InitLocals

SpecMixed == InitMixed /\ [][Next]_vars

----------------------------------------------------------------------------
\* Repeated renders: the Dashboard calls both aggregators again on every
\* render, on the same collection or on another one

RerunTrades == TradesOn({Date(1, 1)})

\* the collections of the renders in between
OtherCollections ==
    {<<Trade(Date(1, 1), [stockName |-> "X", stockCode |-> ""],
             [type |-> "buy", quantity |-> 2, price |-> 15])>>,
     <<Trade(Date(2, 1), [stockName |-> "X", stockCode |-> "C1"],
             [type |-> "sell", quantity |-> 2, price |-> 12])>>}

InitRerun ==
    /\ trades \in SeqsUpTo(RerunTrades, MaxRerunTrades)
    /\ InitLocals

\* the next render: the finished call's results are kept by the caller only;
\* the locals of the finished calls are garbage until the next call makes its own
Rerender ==
    /\ pc = "done"
    /\ Len(calls) + 1 < MaxRenders
    /\ calls' = Append(calls, [trades |-> trades, positions |-> cpResult, monthly |-> msResult])
    /\ trades' \in {trades} \cup {calls[k].trades : k \in 1..Len(calls)}
                     \cup OtherCollections
    /\ pc' = "cp_begin"
    /\ UNCHANGED <<dayVars, uiVars>>
    /\ UNCHANGED <<sorted, i, posMap, cpResult, avgPrices, positions, monthMap, msResult>>

NextRerun ==
    \/ Next
    \/ Rerender

SpecRerun == InitRerun /\ [][NextRerun]_vars

----------------------------------------------------------------------------
\* The calendar's day summary (Dashboard): getDaySummary over the records of
\* one day, getTradeComputed on each.  An optional field of a record is <<>>
\* when absent and <<v>> when present.  A JavaScript number is the rational
\* [n, d]; d = 0 marks a value that is not finite: Infinity (n = 1),
\* -Infinity (n = -1), NaN (n = 0).

Sign(k) == IF k > 0 THEN 1 ELSE IF k < 0 THEN -1 ELSE 0

IsFinite(x) == x.d # 0

\* x / y of finite numbers: a zero divisor gives an infinity or NaN
JsDiv(x, y) ==
    IF y.n = 0 THEN [n |-> Sign(x.n), d |-> 0]
    ELSE Rat(x.n * y.d, x.d * y.n)

\* x * y: an infinity times zero and anything times NaN are NaN
JsMul(x, y) ==
    IF IsFinite(x) /\ IsFinite(y) THEN RMul(x, y)
    ELSE [n |-> Sign(x.n) * Sign(y.n), d |-> 0]

\* x + y: opposite infinities and anything plus NaN are NaN
JsAdd(x, y) ==
    IF IsFinite(x) /\ IsFinite(y) THEN RAdd(x, y)
    ELSE IF ~IsFinite(x) /\ ~IsFinite(y)
         THEN [n |-> IF x.n = y.n THEN x.n ELSE 0, d |-> 0]
         ELSE IF IsFinite(x) THEN y ELSE x

\* field ?? 0
Nullish(field) == IF field = <<>> THEN 0 ELSE field[1]

\* field || 0
OrZero(field) == IF field = <<>> \/ field[1] = 0 THEN 0 ELSE field[1]

\* variant: the quotient is formed whatever the invested amount is
ReturnPctUnguarded(pnl, buyAmount) ==
    JsMul(JsDiv(RInt(pnl), RInt(buyAmount)), RInt(100))

\* buyAmount > 0 ? (pnl / buyAmount) * 100 : 0
ReturnPct(pnl, buyAmount) ==
    IF buyAmount > 0
        THEN JsMul(JsDiv(RInt(pnl), RInt(buyAmount)), RInt(100))
        ELSE RInt(0)

getTradeComputed(trade) ==
    LET qty == OrZero(trade.quantity)
        buyAmount ==
            IF trade.type = "roundtrip" THEN Nullish(trade.buyPrice) * qty
            ELSE IF trade.type = "buy" THEN Nullish(trade.price) * qty
            ELSE 0
        sellAmount ==
            IF trade.type = "roundtrip" THEN Nullish(trade.sellPrice) * qty
            ELSE IF trade.type = "sell" THEN Nullish(trade.price) * qty
            ELSE 0
        pnl == Nullish(trade.realizedPnl)
    IN  [buyAmount |-> buyAmount, sellAmount |-> sellAmount, pnl |-> pnl,
         returnPct |-> ReturnPct(pnl, buyAmount)]

\* returns.reduce((a, b) => a + b, 0)
RECURSIVE SumReturns(_)
SumReturns(rs) ==
    IF rs = <<>> THEN RInt(0)
    ELSE JsAdd(SumReturns(SubSeq(rs, 1, Len(rs) - 1)), rs[Len(rs)])

\* returns.length ? sum / returns.length : 0
AvgReturn(rs) ==
    IF Len(rs) # 0 THEN JsDiv(SumReturns(rs), RInt(Len(rs))) ELSE RInt(0)

IsRoundtrip(t) == t.type = "roundtrip"

\* avgReturnPct, the map callback: invested > 0 ? (pnl / invested) * 100 : null,
\* null being <<>>; an absent quantity makes invested NaN, which is not > 0
RtReturn(t) ==
    IF t.quantity = <<>> THEN <<>>
    ELSE LET invested == OrZero(t.buyPrice) * t.quantity[1]
             pnl == OrZero(t.realizedPnl)
         IN  IF invested > 0
                 THEN <<JsMul(JsDiv(RInt(pnl), RInt(invested)), RInt(100))>>
                 ELSE <<>>

\* avgReturnPct: .filter(v !== null && Number.isFinite(v)), then the mean or 0
RECURSIVE RtReturns(_)
RtReturns(list) ==
    IF list = <<>> THEN <<>>
    ELSE LET v == RtReturn(list[Len(list)])
         IN  RtReturns(SubSeq(list, 1, Len(list) - 1))
             \o (IF v # <<>> /\ IsFinite(v[1]) THEN v ELSE <<>>)

avgReturnPct(list) ==
    LET rets == RtReturns(list)
    IN  IF Len(rets) = 0 THEN RInt(0) ELSE JsDiv(SumReturns(rets), RInt(Len(rets)))

\* the records a day can hold: roundtrips with each field present or absent,
\* a plain buy with and without a realized P&L, a plain sell
RoundtripTrades ==
    {[type |-> "roundtrip", quantity |-> q, price |-> <<>>,
      buyPrice |-> bp, sellPrice |-> sp, realizedPnl |-> r] :
        q \in {<<>>, <<1>>, <<2>>}, bp \in {<<>>, <<0>>, <<10>>},
        sp \in {<<>>, <<12>>}, r \in {<<>>, <<-5>>, <<20>>}}

PlainTrades ==
    {[type |-> ty, quantity |-> <<1>>, price |-> <<10>>,
      buyPrice |-> <<>>, sellPrice |-> <<>>, realizedPnl |-> r] :
        ty \in {"buy", "sell"}, r \in {<<>>, <<20>>}}

InitDay ==
    /\ trades = <<>>
    /\ AggIdle
    /\ UiIdle
    /\ dayTrades \in SeqsUpTo(RoundtripTrades \cup PlainTrades, MaxDay)
    /\ dayPc = "ds_begin"
    /\ dayI = 1
    /\ computed = <<>>
    /\ dayAcc = <<>>
    /\ daySummary = <<>>
    /\ totalAvgReturn = <<>>

mainVars == <<trades, pc, sorted, i, posMap, cpResult, avgPrices, positions, monthMap,
              msResult, calls>>

DS_Begin ==
    /\ dayPc = "ds_begin"
    /\ dayAcc' = <<[totalBuy |-> 0, totalSell |-> 0, totalPnl |-> 0, returns |-> <<>>]>>
    /\ dayI' = 1
    /\ dayPc' = "ds_loop"
    /\ UNCHANGED <<dayTrades, computed, daySummary, totalAvgReturn>>
    /\ UNCHANGED <<mainVars, uiVars>>

\* variant: every record's returnPct enters returns
DS_StepCountsAll ==
    /\ dayPc = "ds_loop"
    /\ dayI <= Len(dayTrades)
    /\ LET c == getTradeComputed(dayTrades[dayI])
           acc == dayAcc[1]
       IN  /\ computed' = <<c>>
           /\ dayAcc' = <<[totalBuy |-> acc.totalBuy + c.buyAmount,
                           totalSell |-> acc.totalSell + c.sellAmount,
                           totalPnl |-> acc.totalPnl + c.pnl,
                           returns |-> Append(acc.returns, c.returnPct)]>>
    /\ dayI' = dayI + 1
    /\ UNCHANGED <<dayTrades, dayPc, daySummary, totalAvgReturn>>
    /\ UNCHANGED <<mainVars, uiVars>>

DS_Step ==
    /\ dayPc = "ds_loop"
    /\ dayI <= Len(dayTrades)
    /\ LET c == getTradeComputed(dayTrades[dayI])
           acc == dayAcc[1]
       IN  /\ computed' = <<c>>
           /\ dayAcc' = <<[totalBuy |-> acc.totalBuy + c.buyAmount,
                           totalSell |-> acc.totalSell + c.sellAmount,
                           totalPnl |-> acc.totalPnl + c.pnl,
                           returns |-> IF c.buyAmount > 0
                                           THEN Append(acc.returns, c.returnPct)
                                           ELSE acc.returns]>>
    /\ dayI' = dayI + 1
    /\ UNCHANGED <<dayTrades, dayPc, daySummary, totalAvgReturn>>
    /\ UNCHANGED <<mainVars, uiVars>>

DS_Return ==
    /\ dayPc = "ds_loop"
    /\ dayI > Len(dayTrades)
    /\ daySummary' = <<[totalBuy |-> dayAcc[1].totalBuy,
                        totalSell |-> dayAcc[1].totalSell,
                        totalPnl |-> dayAcc[1].totalPnl,
                        avgReturn |-> AvgReturn(dayAcc[1].returns)]>>
    /\ dayPc' = "done"
    /\ UNCHANGED <<dayTrades, dayI, computed, dayAcc, totalAvgReturn>>
    /\ UNCHANGED <<mainVars, uiVars>>

\* Dashboard: rtTrades = trades.filter(roundtrip); totalAvgReturn = avgReturnPct(rtTrades)
DM_AvgReturn ==
    /\ dayPc = "done"
    /\ totalAvgReturn' = <<avgReturnPct(SelectSeq(dayTrades, IsRoundtrip))>>
    /\ dayPc' = "metrics"
    /\ UNCHANGED <<dayTrades, dayI, computed, dayAcc, daySummary>>
    /\ UNCHANGED <<mainVars, uiVars>>

NextDay ==
    \/ DS_Begin
    \/ DS_Step
    \/ DS_Return
    \/ DM_AvgReturn

SpecDay == InitDay /\ [][NextDay]_vars

----------------------------------------------------------------------------
\* The trade store and the trade form of App.  A stored record is [id, val],
\* val standing for all its other fields; generateId hands out nextId, an
\* identifier never handed out before.

FormVals == {"a", "b"}
FormDates == {"d1"}

\* a store as an earlier session left it
StoredTrades(n) == [j \in 1..n |-> [id |-> j, val |-> "a"]]

Call(op, id, arg) == <<[op |-> op, id |-> id, trade |-> arg]>>

\* variant: a submitted record is always appended
handleAddTradeAppends(prev, editing, trade) == Append(prev, trade)

\* handleAddTrade, the setTrades updater it picks
handleAddTrade(prev, editing, trade) ==
    IF editing # <<>>
        THEN [j \in 1..Len(prev) |-> IF prev[j].id = trade.id THEN trade ELSE prev[j]]
        ELSE Append(prev, trade)

\* handleDeleteTrade, its setTrades updater
handleDeleteTrade(prev, id) == SelectSeq(prev, LAMBDA t : t.id # id)

InitApp ==
    /\ trades = <<>>
    /\ AggIdle
    /\ DayIdle
    /\ SetIdle
    /\ NewsIdle
    /\ \E n \in 0..2 :
         /\ appTrades = StoredTrades(n)
         /\ nextId = n + 1
    /\ isFormOpen = FALSE
    /\ editingTrade = <<>>
    /\ initialFormDate = <<>>
    /\ appCall = <<>>

\* the "new trade" buttons
OpenNew ==
    /\ editingTrade' = <<>>
    /\ initialFormDate' = <<>>
    /\ isFormOpen' = TRUE
    /\ appCall' = Call("new", 0, <<>>)
    /\ UNCHANGED <<appTrades, nextId>>
    /\ UNCHANGED <<mainVars, dayVars, setVars, newsVars>>

\* variant: the date of an earlier "add for date" survives the edit
HandleEditTradeKeepsDate ==
    \E j \in 1..Len(appTrades) :
        /\ editingTrade' = <<appTrades[j]>>
        /\ isFormOpen' = TRUE
        /\ appCall' = Call("edit", appTrades[j].id, <<>>)
        /\ UNCHANGED <<appTrades, nextId, initialFormDate>>
        /\ UNCHANGED <<mainVars, dayVars, setVars, newsVars>>

\* handleEditTrade(trade), trade a record of the rendered list
HandleEditTrade ==
    \E j \in 1..Len(appTrades) :
        /\ editingTrade' = <<appTrades[j]>>
        /\ initialFormDate' = <<>>
        /\ isFormOpen' = TRUE
        /\ appCall' = Call("edit", appTrades[j].id, <<>>)
        /\ UNCHANGED <<appTrades, nextId>>
        /\ UNCHANGED <<mainVars, dayVars, setVars, newsVars>>

HandleAddTradeForDate ==
    \E d \in FormDates :
        /\ editingTrade' = <<>>
        /\ initialFormDate' = <<d>>
        /\ isFormOpen' = TRUE
        /\ appCall' = Call("date", 0, <<>>)
        /\ UNCHANGED <<appTrades, nextId>>
        /\ UNCHANGED <<mainVars, dayVars, setVars, newsVars>>

HandleCloseForm ==
    /\ isFormOpen' = FALSE
    /\ editingTrade' = <<>>
    /\ initialFormDate' = <<>>
    /\ appCall' = Call("close", 0, <<>>)
    /\ UNCHANGED <<appTrades, nextId>>
    /\ UNCHANGED <<mainVars, dayVars, setVars, newsVars>>

\* handleDeleteTrade(id), id of a record of the rendered list
HandleDeleteTrade ==
    \E j \in 1..Len(appTrades) :
        /\ appTrades' = handleDeleteTrade(appTrades, appTrades[j].id)
        /\ appCall' = Call("delete", appTrades[j].id, <<>>)
        /\ UNCHANGED <<isFormOpen, editingTrade, initialFormDate, nextId>>
        /\ UNCHANGED <<mainVars, dayVars, setVars, newsVars>>

\* TradeForm.handleSubmit builds the record, id: editTrade?.id || generateId(),
\* and hands it to handleAddTrade
HandleSubmit ==
    /\ isFormOpen
    /\ editingTrade = <<>> => nextId <= MaxAppId
    /\ \E v \in FormVals :
         LET trade == [id |-> IF editingTrade # <<>> THEN editingTrade[1].id ELSE nextId,
                       val |-> v]
         IN  /\ appTrades' = handleAddTrade(appTrades, editingTrade, trade)
             /\ appCall' = Call("submit", trade.id, <<trade>>)
    /\ nextId' = IF editingTrade # <<>> THEN nextId ELSE nextId + 1
    /\ isFormOpen' = FALSE
    /\ editingTrade' = <<>>
    /\ initialFormDate' = <<>>
    /\ UNCHANGED <<mainVars, dayVars, setVars, newsVars>>

NextApp ==
    \/ OpenNew
    \/ HandleEditTrade
    \/ HandleAddTradeForDate
    \/ HandleCloseForm
    \/ HandleDeleteTrade
    \/ HandleSubmit

SpecApp == InitApp /\ [][NextApp]_vars

----------------------------------------------------------------------------
\* The Settings editor and the tab visibility effect of App.  Settings is
\* mounted while activeTab is "settings"; its draft is copied from the
\* settings when it mounts.  A passive effect runs before the next event is
\* handled, so the handlers wait for effectPending to clear.

SetCall(op, id, dir) == <<[op |-> op, id |-> id, dir |-> dir]>>

\* [...sections].sort((a, b) => a.order - b.order), a stable sort
RECURSIVE SortByOrder(_)
SortByOrder(secs) ==
    IF secs = <<>> THEN <<>>
    ELSE LET n == Len(secs)
             init == SortByOrder(SubSeq(secs, 1, n - 1))
             x == secs[n]
             k == Cardinality({j \in 1..Len(init) : init[j].order <= x.order})
         IN  SubSeq(init, 1, k) \o <<x>> \o SubSeq(init, k + 1, Len(init))

\* sorted.findIndex(s => s.id === id), as a 1-based index
FindIndex(srt, id) == CHOOSE j \in 1..Len(srt) : srt[j].id = id

\* variant: the moved section takes the neighbour's order, the neighbour keeps its own
MoveSectionCopiesOrder(secs, id, dir) ==
    LET srt == SortByOrder(secs)
        idx == FindIndex(srt, id)
        swapIdx == IF dir = "up" THEN idx - 1 ELSE idx + 1
    IN  IF (dir = "up" /\ idx <= 1) \/ (dir = "down" /\ idx >= Len(srt)) THEN secs
        ELSE [srt EXCEPT ![idx] = [id |-> srt[idx].id, order |-> srt[swapIdx].order]]

\* handleMoveSection: the array it hands to setDraft, the draft's own array
\* when it returns early
MoveSection(secs, id, dir) ==
    LET srt == SortByOrder(secs)
        idx == FindIndex(srt, id)
        swapIdx == IF dir = "up" THEN idx - 1 ELSE idx + 1
    IN  IF (dir = "up" /\ idx <= 1) \/ (dir = "down" /\ idx >= Len(srt)) THEN secs
        ELSE [srt EXCEPT ![idx] = [id |-> srt[idx].id, order |-> srt[swapIdx].order],
                         ![swapIdx] = [id |-> srt[swapIdx].id, order |-> srt[idx].order]]

\* handleMoveSection returns before setDraft and markChanged
MoveReturnsEarly(secs, id, dir) ==
    LET srt == SortByOrder(secs)
        idx == FindIndex(srt, id)
    IN  (dir = "up" /\ idx <= 1) \/ (dir = "down" /\ idx >= Len(srt))

\* settings saved by an earlier session: dashboard and settings visible
InitTabs ==
    /\ trades = <<>>
    /\ AggIdle
    /\ DayIdle
    /\ AppIdle
    /\ NewsIdle
    /\ settingsTabs \in {f \in [TabIds -> BOOLEAN] : f["dashboard"] /\ f["settings"]}
    /\ settingsSections = DefaultSections
    /\ activeTab = "dashboard"
    /\ effectPending = TRUE
    /\ draftTabs = settingsTabs
    /\ draftSections = DefaultSections
    /\ hasChanges = FALSE
    /\ setCall = <<>>

\* Settings open on the default settings
InitSections ==
    /\ trades = <<>>
    /\ AggIdle
    /\ DayIdle
    /\ AppIdle
    /\ NewsIdle
    /\ settingsTabs = DefaultTabs
    /\ settingsSections = DefaultSections
    /\ activeTab = "settings"
    /\ effectPending = FALSE
    /\ draftTabs = DefaultTabs
    /\ draftSections = DefaultSections
    /\ hasChanges = FALSE
    /\ setCall = <<>>

nonSetVars == <<mainVars, dayVars, appVars, newsVars>>

\* variant: every tab can be toggled
HandleTabToggleAny ==
    /\ activeTab = "settings"
    /\ ~effectPending
    /\ \E id \in TabIds :
         /\ draftTabs' = [draftTabs EXCEPT ![id] = ~draftTabs[id]]
         /\ hasChanges' = TRUE
         /\ setCall' = SetCall("toggle", id, "")
    /\ UNCHANGED <<settingsTabs, settingsSections, activeTab, effectPending, draftSections>>
    /\ UNCHANGED nonSetVars

HandleTabToggle ==
    /\ activeTab = "settings"
    /\ ~effectPending
    /\ \E id \in TabIds :
         /\ IF id = "dashboard" \/ id = "settings"
                THEN UNCHANGED <<draftTabs, hasChanges>>
                ELSE /\ draftTabs' = [draftTabs EXCEPT ![id] = ~draftTabs[id]]
                     /\ hasChanges' = TRUE
         /\ setCall' = SetCall("toggle", id, "")
    /\ UNCHANGED <<settingsTabs, settingsSections, activeTab, effectPending, draftSections>>
    /\ UNCHANGED nonSetVars

HandleMoveSection ==
    /\ activeTab = "settings"
    /\ ~effectPending
    /\ \E id \in 1..NumSections, dir \in {"up", "down"} :
         /\ draftSections' = MoveSection(draftSections, id, dir)
         /\ hasChanges' = IF MoveReturnsEarly(draftSections, id, dir) THEN hasChanges ELSE TRUE
         /\ setCall' = SetCall("move", id, dir)
    /\ UNCHANGED <<settingsTabs, settingsSections, activeTab, effectPending, draftTabs>>
    /\ UNCHANGED nonSetVars

\* Settings.handleSave -> App.handleSaveSettings: the draft becomes the settings
HandleSave ==
    /\ activeTab = "settings"
    /\ ~effectPending
    /\ settingsTabs' = draftTabs
    /\ settingsSections' = draftSections
    /\ hasChanges' = FALSE
    /\ effectPending' = TRUE
    /\ setCall' = SetCall("save", "", "")
    /\ UNCHANGED <<activeTab, draftTabs, draftSections>>
    /\ UNCHANGED nonSetVars

\* Settings.handleReset -> App.handleResetSettings
HandleReset ==
    /\ activeTab = "settings"
    /\ ~effectPending
    /\ settingsTabs' = DefaultTabs
    /\ settingsSections' = DefaultSections
    /\ hasChanges' = FALSE
    /\ effectPending' = TRUE
    /\ setCall' = SetCall("reset", "", "")
    /\ UNCHANGED <<activeTab, draftTabs, draftSections>>
    /\ UNCHANGED nonSetVars

\* handleTabClick on a tab of the sidebar, which lists the visible tabs;
\* entering "settings" mounts Settings with a fresh draft
HandleTabClick ==
    /\ ~effectPending
    /\ \E t \in TabIds :
         /\ settingsTabs[t]
         /\ activeTab' = t
         /\ IF t = "settings" /\ activeTab # "settings"
                THEN /\ draftTabs' = settingsTabs
                     /\ draftSections' = settingsSections
                     /\ hasChanges' = FALSE
                ELSE UNCHANGED <<draftTabs, draftSections, hasChanges>>
         /\ setCall' = SetCall("click", "", t)
    /\ effectPending' = TRUE
    /\ UNCHANGED <<settingsTabs, settingsSections>>
    /\ UNCHANGED nonSetVars

\* Dashboard's onNavigateToTrades: setActiveTab('trades'), visible or not
NavigateToTrades ==
    /\ ~effectPending
    /\ activeTab = "dashboard"
    /\ activeTab' = "trades"
    /\ effectPending' = TRUE
    /\ setCall' = SetCall("navigate", "", "trades")
    /\ UNCHANGED <<settingsTabs, settingsSections, draftTabs, draftSections, hasChanges>>
    /\ UNCHANGED nonSetVars

\* useEffect on [settings.tabs, activeTab]; setActiveTab makes it run once more
VisibilityEffect ==
    /\ effectPending
    /\ IF ~settingsTabs[activeTab]
           THEN /\ activeTab' = "dashboard"
                /\ effectPending' = (activeTab # "dashboard")
           ELSE /\ effectPending' = FALSE
                /\ UNCHANGED activeTab
    /\ UNCHANGED <<settingsTabs, settingsSections, draftTabs, draftSections, hasChanges,
                   setCall>>
    /\ UNCHANGED nonSetVars

NextTabs ==
    \/ HandleTabToggle
    \/ HandleSave
    \/ HandleReset
    \/ HandleTabClick
    \/ NavigateToTrades
    \/ VisibilityEffect

SpecTabs == InitTabs /\ [][NextTabs]_vars

NextSections == HandleMoveSection

SpecSections == InitSections /\ [][NextSections]_vars

----------------------------------------------------------------------------
\* NewsFeed: fetchNews and the automatic retry.  fetchNews is started by the
\* mount, by the 2-minute interval, by a manual refresh and by the retry
\* timeout; its response arrives later.  The cache of getCachedNews expires
\* with time (CACHE_TTL).

\* the retry effect arms its timeout up to this retryCount
RetryLimit == 3

InitNews ==
    /\ trades = <<>>
    /\ AggIdle
    /\ DayIdle
    /\ AppIdle
    /\ SetIdle
    /\ retryCount = 0
    /\ retryTimer = FALSE
    /\ retryEffectDue = FALSE
    /\ cacheUsable \in BOOLEAN
    /\ inFlight = 1
    /\ retriesArmed = 0
    /\ fetchOutcome = ""

nonNewsVars == <<mainVars, dayVars, appVars, setVars>>

\* the interval or handleRefresh calls fetchNews
StartFetch ==
    /\ inFlight < MaxInFlight
    /\ inFlight' = inFlight + 1
    /\ UNCHANGED <<retryCount, retryTimer, retryEffectDue, cacheUsable, retriesArmed,
                   fetchOutcome>>
    /\ UNCHANGED nonNewsVars

\* the retry timeout fires: fetchNews()
RetryFires ==
    /\ retryTimer
    /\ inFlight < MaxInFlight
    /\ retryTimer' = FALSE
    /\ inFlight' = inFlight + 1
    /\ UNCHANGED <<retryCount, retryEffectDue, cacheUsable, retriesArmed, fetchOutcome>>
    /\ UNCHANGED nonNewsVars

\* the response carries a non-empty item list
FetchItems ==
    /\ inFlight > 0
    /\ inFlight' = inFlight - 1
    /\ retryCount' = 0
    /\ retryEffectDue' = (retryEffectDue \/ retryCount # 0)
    /\ cacheUsable' = TRUE
    /\ retriesArmed' = 0
    /\ fetchOutcome' = "items"
    /\ UNCHANGED retryTimer
    /\ UNCHANGED nonNewsVars

\* the response carries no items
FetchEmpty ==
    /\ inFlight > 0
    /\ inFlight' = inFlight - 1
    /\ fetchOutcome' = "empty"
    /\ UNCHANGED <<retryCount, retryTimer, retryEffectDue, cacheUsable, retriesArmed>>
    /\ UNCHANGED nonNewsVars

\* fetchJson throws
FetchFails ==
    /\ inFlight > 0
    /\ cacheUsable \/ retryCount < MaxRetryCount
    /\ inFlight' = inFlight - 1
    /\ IF cacheUsable
           THEN /\ fetchOutcome' = "failed, cache shown"
                /\ UNCHANGED <<retryCount, retryEffectDue>>
           ELSE /\ fetchOutcome' = "failed"
                /\ retryCount' = retryCount + 1
                /\ retryEffectDue' = TRUE
    /\ UNCHANGED <<retryTimer, cacheUsable, retriesArmed>>
    /\ UNCHANGED nonNewsVars

\* variant: the timeout is armed for every positive retryCount
RetryEffectUnbounded ==
    /\ retryEffectDue
    /\ retryEffectDue' = FALSE
    /\ IF retryCount > 0
           THEN retryTimer' = TRUE /\ retriesArmed' = retriesArmed + 1
           ELSE retryTimer' = FALSE /\ UNCHANGED retriesArmed
    /\ UNCHANGED <<retryCount, cacheUsable, inFlight, fetchOutcome>>
    /\ UNCHANGED nonNewsVars

\* useEffect on [retryCount]: the cleanup clears the earlier timeout, then a
\* new one is armed if retryCount > 0 && retryCount <= 3
RetryEffect ==
    /\ retryEffectDue
    /\ retryEffectDue' = FALSE
    /\ IF retryCount > 0 /\ retryCount <= RetryLimit
           THEN retryTimer' = TRUE /\ retriesArmed' = retriesArmed + 1
           ELSE retryTimer' = FALSE /\ UNCHANGED retriesArmed
    /\ UNCHANGED <<retryCount, cacheUsable, inFlight, fetchOutcome>>
    /\ UNCHANGED nonNewsVars

\* Date.now() - parsed.timestamp reaches CACHE_TTL
CacheExpires ==
    /\ cacheUsable
    /\ cacheUsable' = FALSE
    /\ UNCHANGED <<retryCount, retryTimer, retryEffectDue, inFlight, retriesArmed,
                   fetchOutcome>>
    /\ UNCHANGED nonNewsVars

NextNews ==
    \/ StartFetch
    \/ RetryFires
    \/ FetchItems
    \/ FetchEmpty
    \/ FetchFails
    \/ RetryEffect
    \/ CacheExpires

SpecNews == InitNews /\ [][NextNews]_vars

----------------------------------------------------------------------------
\* Reference quantities the properties compare the aggregators with,
\* computed from the records themselves

\* total quantity of the side-records of key k among the first n of srt
RECURSIVE SumQty(_, _, _, _)
SumQty(srt, n, k, side) ==
    IF n = 0 THEN 0
    ELSE SumQty(srt, n - 1, k, side)
         + (IF StockKey(srt[n]) = k /\ srt[n].type = side THEN srt[n].quantity ELSE 0)

\* total price*quantity of the side-records of key k among the first n of srt
RECURSIVE SumAmount(_, _, _, _)
SumAmount(srt, n, k, side) ==
    IF n = 0 THEN 0
    ELSE SumAmount(srt, n - 1, k, side)
         + (IF StockKey(srt[n]) = k /\ srt[n].type = side
            THEN srt[n].price * srt[n].quantity ELSE 0)

\* average buy price of key k over the records that precede index idx (0 if none)
AvgBefore(srt, idx, k) ==
    IF SumQty(srt, idx - 1, k, "buy") = 0 THEN RInt(0)
    ELSE Rat(SumAmount(srt, idx - 1, k, "buy"), SumQty(srt, idx - 1, k, "buy"))

\* (price - avg) * quantity of a record
Gain(trade, avg) == RMul(RSub(RInt(trade.price), avg), RInt(trade.quantity))

ZeroFields ==
    [buyQuantity |-> 0, sellQuantity |-> 0, holdingQuantity |-> 0, avgBuyPrice |-> RInt(0),
     totalBuyCost |-> 0, totalSellRevenue |-> 0, realizedPnL |-> RInt(0)]

\* the position of key k, all-zero while the key has none
FieldsOf(pm, k) == IF MapHas(pm, k) THEN MapGet(pm, k) ELSE ZeroFields

\* the pnl of month m, zero while the month has no bucket
PnlOf(mm, m) == IF MapHas(mm, m) THEN MapGet(mm, m).pnl ELSE RInt(0)

\* calculatePositions is folding a record of the given side in this step
CPStep(side) == pc = "cp_loop" /\ i <= Len(sorted) /\ sorted[i].type = side /\ i' = i + 1

\* the second loop of getMonthlyStats is folding a sell in this step
MSSellStep == pc = "ms_loop" /\ i <= Len(sorted) /\ sorted[i].type = "sell" /\ i' = i + 1

\* what the record at index idx of the sorted list adds to its stock's realizedPnL
ContributionAt(ts, idx) ==
    LET srt == SortByDate(ts)
        k == StockKey(srt[idx])
    IN  RSub(FieldsOf(FoldPositions(srt, idx), k).realizedPnL,
             FieldsOf(FoldPositions(srt, idx - 1), k).realizedPnL)

\* buys of the stock of t dated after t
LaterBuys(t) ==
    {b \in TradesOn(Dates \cup {Date(3, 1)}) :
        b.type = "buy" /\ StockKey(b) = StockKey(t) /\ DateCompare(b.date, t.date) > 0}

----------------------------------------------------------------------------
\* C1: each sell adds (sell price - A) * sell quantity to its stock's
\* realizedPnL, A being the average price of the stock's buys that precede the
\* sell in date-sorted order (0 if none); a buy of the stock dated after the
\* sell, added to the collection, leaves that contribution as it is.
C1_SellUsesAverageAtSellTime ==
    [][CPStep("sell") =>
        LET t == sorted[i]
            k == StockKey(t)
            contrib == RSub(FieldsOf(posMap', k).realizedPnL, FieldsOf(posMap, k).realizedPnL)
        IN  /\ contrib = Gain(t, AvgBefore(sorted, i, k))
            /\ \A b \in LaterBuys(t) : ContributionAt(Append(trades, b), i) = contrib]_vars

\* a sell has just been folded that follows a buy of its stock and precedes a
\* later-dated buy of it at another average
C1_Witness ==
    /\ pc = "cp_loop"
    /\ i > 2
    /\ sorted[i - 1].type = "sell"
    /\ LET k == StockKey(sorted[i - 1])
       IN  /\ SumQty(sorted, i - 2, k, "buy") > 0
           /\ \E j \in i..Len(sorted) :
                /\ sorted[j].type = "buy"
                /\ StockKey(sorted[j]) = k
                /\ DateCompare(sorted[j].date, sorted[i - 1].date) > 0
                /\ AvgBefore(sorted, j + 1, k) # AvgBefore(sorted, i - 1, k)

\* C2: a buy adds price*quantity to totalBuyCost and quantity to buyQuantity
\* and sets avgBuyPrice to the new totalBuyCost / buyQuantity; so in every
\* position with a buy, avgBuyPrice * buyQuantity = totalBuyCost.
C2_BuyRecomputesAverage ==
    [][/\ CPStep("buy") =>
            LET t == sorted[i]
                before == FieldsOf(posMap, StockKey(t))
                after == FieldsOf(posMap', StockKey(t))
            IN  /\ after.totalBuyCost = before.totalBuyCost + t.price * t.quantity
                /\ after.buyQuantity = before.buyQuantity + t.quantity
                /\ after.avgBuyPrice = Rat(after.totalBuyCost, after.buyQuantity)
       /\ \A j \in 1..Len(posMap') :
            posMap'[j].val.buyQuantity > 0 =>
                RMul(posMap'[j].val.avgBuyPrice, RInt(posMap'[j].val.buyQuantity))
                    = RInt(posMap'[j].val.totalBuyCost)]_vars

\* a second buy of a stock at another price has just been folded, and the
\* average is no whole number
C2_Witness ==
    /\ pc = "cp_loop"
    /\ i > 2
    /\ sorted[i - 1].type = "buy"
    /\ LET k == StockKey(sorted[i - 1])
       IN  /\ SumQty(sorted, i - 2, k, "buy") > 0
           /\ AvgBefore(sorted, i - 1, k) # RInt(sorted[i - 1].price)
           /\ MapGet(posMap, k).avgBuyPrice.d > 1

\* C3: a sell leaves its stock's avgBuyPrice, totalBuyCost and buyQuantity as
\* they were, and every other stock's position as it was.
C3_SellLeavesCostPool ==
    [][CPStep("sell") =>
        LET k == StockKey(sorted[i])
            before == FieldsOf(posMap, k)
            after == FieldsOf(posMap', k)
        IN  /\ after.avgBuyPrice = before.avgBuyPrice
            /\ after.totalBuyCost = before.totalBuyCost
            /\ after.buyQuantity = before.buyQuantity
            /\ \A k2 \in (MapKeys(posMap) \cup MapKeys(posMap')) \ {k} :
                 /\ MapHas(posMap, k2)
                 /\ MapHas(posMap', k2)
                 /\ MapGet(posMap', k2) = MapGet(posMap, k2)]_vars

\* a sell of a stock with a buy has just been folded while another stock
\* holds a position
C3_Witness ==
    /\ pc = "cp_loop"
    /\ i > 2
    /\ sorted[i - 1].type = "sell"
    /\ Len(posMap) = 2
    /\ MapGet(posMap, StockKey(sorted[i - 1])).buyQuantity > 0

\* what the positions ps (keyed by their stock) must count after the first n
\* records of srt
HoldingMatches(ps, srt, n) ==
    \A j \in 1..Len(ps) :
        LET k == StockKey(ps[j])
        IN  /\ ps[j].buyQuantity = SumQty(srt, n, k, "buy")
            /\ ps[j].sellQuantity = SumQty(srt, n, k, "sell")
            /\ ps[j].holdingQuantity = ps[j].buyQuantity - ps[j].sellQuantity

\* C4: after every record folded, and in every returned position,
\* holdingQuantity = buyQuantity - sellQuantity, the two being the summed
\* quantities of the stock key's buy and sell records.
C4_HoldingIsBoughtMinusSold ==
    /\ pc = "cp_loop" => HoldingMatches(MapValues(posMap), sorted, i - 1)
    /\ pc \notin {"cp_begin", "cp_loop"} => HoldingMatches(cpResult, trades, Len(trades))

\* a returned position of a stock sold beyond what was bought
C4_Witness ==
    /\ pc = "done"
    /\ \E j \in 1..Len(cpResult) :
         /\ cpResult[j].buyQuantity > 0
         /\ cpResult[j].sellQuantity > cpResult[j].buyQuantity

----------------------------------------------------------------------------
\* Reference quantities of the monthly statistics

\* the months with a record
MonthsOf(ts) == {MonthOf(ts[j].date) : j \in 1..Len(ts)}

\* total price*quantity of the side-records of month m among the first n of ts
RECURSIVE MonthAmount(_, _, _, _)
MonthAmount(ts, n, m, side) ==
    IF n = 0 THEN 0
    ELSE MonthAmount(ts, n - 1, m, side)
         + (IF MonthOf(ts[n].date) = m /\ ts[n].type = side
            THEN ts[n].price * ts[n].quantity ELSE 0)

\* sum of the pnl of the month entries es
RECURSIVE SumPnl(_)
SumPnl(es) == IF es = <<>> THEN RInt(0) ELSE RAdd(SumPnl(Tail(es)), Head(es).pnl)

\* sum of the realizedPnL of the positions ps
RECURSIVE SumRealized(_)
SumRealized(ps) == IF ps = <<>> THEN RInt(0) ELSE RAdd(SumRealized(Tail(ps)), Head(ps).realizedPnL)

\* C5: each sell adds (price - A) * quantity to the pnl of its month, A being
\* the average price of the stock's buys that precede the sell in the full
\* date-sorted history (stated for sells that follow a buy of their stock).
C5_MonthlySellUsesAverageAtSellTime ==
    [][(MSSellStep /\ SumQty(sorted, i - 1, StockKey(sorted[i]), "buy") > 0) =>
        LET t == sorted[i]
            m == MonthOf(t.date)
        IN  RSub(PnlOf(monthMap', m), PnlOf(monthMap, m))
                = Gain(t, AvgBefore(sorted, i, StockKey(t)))]_vars

\* C6: when the records span at most 12 months, the pnl of the returned months
\* sums to the realizedPnL of the returned positions.
C6_MonthlyPnlSumsToRealized ==
    (pc = "done" /\ Cardinality(MonthsOf(trades)) <= MonthLimit)
        => SumPnl(msResult) = SumRealized(cpResult)

\* C7: a sell of a stock key without any buy record adds price * quantity, its
\* full revenue, to the pnl of its month.
C7_MonthlySellWithoutBuyIsRevenue ==
    [][(MSSellStep /\ SumQty(sorted, Len(sorted), StockKey(sorted[i]), "buy") = 0) =>
        LET t == sorted[i]
            m == MonthOf(t.date)
        IN  RSub(PnlOf(monthMap', m), PnlOf(monthMap, m)) = RInt(t.price * t.quantity)]_vars

\* C8: at most 12 entries are returned, their month keys strictly ascending;
\* when the records span more than 12 months the keys are the 12 greatest
\* months with a record.
C8_LastTwelveMonthsAscending ==
    pc = "done" =>
        /\ Len(msResult) <= MonthLimit
        /\ \A j \in 1..(Len(msResult) - 1) : msResult[j].month < msResult[j + 1].month
        /\ LET M == MonthsOf(trades)
           IN  Cardinality(M) > MonthLimit =>
                 {msResult[j].month : j \in 1..Len(msResult)}
                    = {m \in M : Cardinality({m2 \in M : m2 > m}) < MonthLimit}

\* the records span more than 12 months and 12 entries came back
C8_Witness ==
    /\ pc = "done"
    /\ Cardinality(MonthsOf(trades)) > MonthLimit
    /\ Len(msResult) = MonthLimit
    /\ Len(monthMap) > MonthLimit

\* the months with a record that are missing from the returned entries
DroppedMonths == MonthsOf(trades) \ {msResult[j].month : j \in 1..Len(msResult)}

\* the collection without the records of the dropped months
KeptTrades == SelectSeq(trades, LAMBDA t : MonthOf(t.date) \notin DroppedMonths)

\* the pnl of month m in the entries es
EntryPnl(es, m) ==
    LET J == {j \in 1..Len(es) : es[j].month = m}
    IN  IF J = {} THEN RInt(0) ELSE es[CHOOSE j \in J : TRUE].pnl

\* the pnl of month m once the dropped months' records are deleted first
TruncatedPnl(m) == EntryPnl(getMonthlyStats(KeptTrades), m)

\* the average over all buys of the stock of t in ts; the price of t if none
WholeAverage(ts, t) ==
    IF SumQty(ts, Len(ts), StockKey(t), "buy") = 0 THEN RInt(t.price)
    ELSE Rat(SumAmount(ts, Len(ts), StockKey(t), "buy"), SumQty(ts, Len(ts), StockKey(t), "buy"))

\* average * quantity summed over the sells of month m among the first n
\* records of all, the averages taken over the collection ts
RECURSIVE CostBasisOf(_, _, _, _)
CostBasisOf(ts, all, n, m) ==
    IF n = 0 THEN RInt(0)
    ELSE RAdd(CostBasisOf(ts, all, n - 1, m),
              IF MonthOf(all[n].date) = m /\ all[n].type = "sell"
              THEN RMul(WholeAverage(ts, all[n]), RInt(all[n].quantity)) ELSE RInt(0))

\* a buy of a dropped month whose stock is sold in month m
DroppedBuySoldIn(m) ==
    \E a, b \in 1..Len(trades) :
        /\ trades[a].type = "buy"
        /\ MonthOf(trades[a].date) \in DroppedMonths
        /\ trades[b].type = "sell"
        /\ MonthOf(trades[b].date) = m
        /\ StockKey(trades[a]) = StockKey(trades[b])

C10_MonthTotals ==
    pc = "done" =>
        \A j \in 1..Len(msResult) :
            LET e == msResult[j]
            IN  /\ e.count = Cardinality({n \in 1..Len(trades) : MonthOf(trades[n].date) = e.month})
                /\ e.buyAmount = MonthAmount(trades, Len(trades), e.month, "buy")
                /\ e.sellAmount = MonthAmount(trades, Len(trades), e.month, "sell")
                /\ e.count # 0

\* a returned month with a buy and a sell on different days
C10_Witness ==
    /\ pc = "done"
    /\ \E j \in 1..Len(msResult) :
         /\ msResult[j].count >= 2
         /\ msResult[j].buyAmount > 0
         /\ msResult[j].sellAmount > 0
         /\ \E a, b \in 1..Len(trades) :
              /\ MonthOf(trades[a].date) = msResult[j].month
              /\ MonthOf(trades[b].date) = msResult[j].month
              /\ trades[a].date # trades[b].date

----------------------------------------------------------------------------
\* C11: a render on a collection that an earlier render was given returns
\* the same positions and the same monthly statistics as that earlier render,
\* whatever collections were aggregated in between.
C11_SameCollectionSameResults ==
    pc = "done" =>
        \A k \in 1..Len(calls) :
            calls[k].trades = trades =>
                /\ calls[k].positions = cpResult
                /\ calls[k].monthly = msResult

\* the third render is on the collection of the first, with a render on
\* another collection in between; the collection has a buy and a sell
C11_Witness ==
    /\ pc = "done"
    /\ Len(calls) = 2
    /\ calls[1].trades = trades
    /\ calls[2].trades # trades
    /\ calls[2].trades # <<>>
    /\ Len(cpResult) > 0
    /\ Len(msResult) > 0
    /\ \E a, b \in 1..Len(trades) : trades[a].type = "buy" /\ trades[b].type = "sell"

----------------------------------------------------------------------------
\* Collections that are permutations of each other

Perms(n) == {p \in [1..n -> 1..n] : \A a, b \in 1..n : a # b => p[a] # p[b]}

Permuted(ts, p) == [j \in 1..Len(ts) |-> ts[p[j]]]

KeysOf(ts) == {StockKey(ts[j]) : j \in 1..Len(ts)}

\* the records of key k, in their order in ts
RecordsOf(ts, k) == SelectSeq(ts, LAMBDA t : StockKey(t) = k)

\* the numbers of the position of key k among the positions ps
NumbersOf(ps, k) ==
    LET J == {j \in 1..Len(ps) : StockKey(ps[j]) = k}
        p == IF J = {} THEN ZeroFields ELSE ps[CHOOSE j \in J : TRUE]
    IN  [buyQuantity |-> p.buyQuantity, sellQuantity |-> p.sellQuantity,
         holdingQuantity |-> p.holdingQuantity, avgBuyPrice |-> p.avgBuyPrice,
         totalBuyCost |-> p.totalBuyCost, totalSellRevenue |-> p.totalSellRevenue,
         realizedPnL |-> p.realizedPnL]

\* every key's own records come in the same order in ts and in its permutation
KeepsKeyOrder(ts, p) == \A k \in KeysOf(ts) : RecordsOf(Permuted(ts, p), k) = RecordsOf(ts, k)

\* C12: a permutation of the collection that keeps every stock key's own
\* records in their relative order yields, for every key, a position with the
\* same seven numbers.
C12_InterleavingLeavesPositions ==
    pc = "done" =>
        \A p \in Perms(Len(trades)) :
            KeepsKeyOrder(trades, p) =>
                \A k \in KeysOf(trades) :
                    NumbersOf(calculatePositions(Permuted(trades, p)), k) = NumbersOf(cpResult, k)

\* a permutation that keeps the keys' orders and changes the sorted list: a
\* buy of one key and a sell of another share a date
C12_Witness ==
    /\ pc = "done"
    /\ \E p \in Perms(Len(trades)) :
         /\ KeepsKeyOrder(trades, p)
         /\ SortByDate(Permuted(trades, p)) # SortByDate(trades)
    /\ \E a, b \in 1..Len(trades) :
         /\ trades[a].type = "buy"
         /\ trades[b].type = "sell"
         /\ StockKey(trades[a]) # StockKey(trades[b])
         /\ trades[a].date = trades[b].date

\* p moves records of key k only
ShufflesOnly(ts, p, k) == \A j \in 1..Len(ts) : StockKey(ts[j]) # k => p[j] = j

\* a buy and a sell of key k share a date
BuyAndSellShareDate(ts, k) ==
    \E a, b \in 1..Len(ts) :
        /\ StockKey(ts[a]) = k
        /\ StockKey(ts[b]) = k
        /\ ts[a].type = "buy"
        /\ ts[b].type = "sell"
        /\ ts[a].date = ts[b].date

\* C13 as stated: shuffling the input order of the records of one stock, each
\* keeping its date, leaves that stock's returned realizedPnL as it was.
C13_ShuffleKeepsRealized ==
    pc = "done" =>
        \A k \in KeysOf(trades) :
            \A p \in Perms(Len(trades)) :
                ShufflesOnly(trades, p, k) =>
                    NumbersOf(calculatePositions(Permuted(trades, p)), k).realizedPnL
                        = NumbersOf(cpResult, k).realizedPnL

\* C13 as amended: the shuffle leaves the stock's realizedPnL as it was when
\* no buy and sell of that stock share a date.
C13_ShuffleKeepsRealizedOffTies ==
    pc = "done" =>
        \A k \in KeysOf(trades) :
            ~BuyAndSellShareDate(trades, k) =>
                \A p \in Perms(Len(trades)) :
                    ShufflesOnly(trades, p, k) =>
                        NumbersOf(calculatePositions(Permuted(trades, p)), k).realizedPnL
                            = NumbersOf(cpResult, k).realizedPnL

\* a stock with a buy and a later-dated sell, given sell first, and a realized
\* gain that is not the sell's revenue
C13_Witness ==
    /\ pc = "done"
    /\ \E k \in KeysOf(trades) :
         /\ ~BuyAndSellShareDate(trades, k)
         /\ \E a, b \in 1..Len(trades) :
              /\ a < b
              /\ StockKey(trades[a]) = k
              /\ StockKey(trades[b]) = k
              /\ trades[a].type = "sell"
              /\ trades[b].type = "buy"
              /\ DateCompare(trades[b].date, trades[a].date) < 0
         /\ NumbersOf(cpResult, k).realizedPnL
              # RInt(NumbersOf(cpResult, k).totalSellRevenue)

----------------------------------------------------------------------------
\* C14: a returned position whose key has buy records only has totalBuyCost =
\* the summed price*quantity of those buys, holdingQuantity = buyQuantity,
\* sellQuantity = 0, totalSellRevenue = 0 and realizedPnL = 0.
C14_BuysOnlyConserveCost ==
    pc = "done" =>
        \A j \in 1..Len(cpResult) :
            LET p == cpResult[j]
                k == StockKey(p)
            IN  (\A n \in 1..Len(trades) : StockKey(trades[n]) = k => trades[n].type = "buy") =>
                    /\ p.totalBuyCost = SumAmount(trades, Len(trades), k, "buy")
                    /\ p.holdingQuantity = p.buyQuantity
                    /\ p.sellQuantity = 0
                    /\ p.totalSellRevenue = 0
                    /\ p.realizedPnL = RInt(0)

\* a key with two buys of different lots and no sell, next to a key with a sell
C14_Witness ==
    /\ pc = "done"
    /\ \E j, j2 \in 1..Len(cpResult) :
         /\ cpResult[j].sellQuantity = 0
         /\ cpResult[j].buyQuantity = 3
         /\ cpResult[j2].sellQuantity > 0

\* C15: a returned position whose key has sell records and no buy record has
\* avgBuyPrice = 0, realizedPnL = the summed price*quantity of the sells, and
\* holdingQuantity = minus the sold quantity.
C15_SellsOnlyRealizeRevenue ==
    pc = "done" =>
        \A j \in 1..Len(cpResult) :
            LET p == cpResult[j]
                k == StockKey(p)
                n == Len(trades)
            IN  (SumQty(trades, n, k, "buy") = 0 /\ SumQty(trades, n, k, "sell") > 0) =>
                    /\ p.avgBuyPrice = RInt(0)
                    /\ p.realizedPnL = RInt(SumAmount(trades, n, k, "sell"))
                    /\ p.holdingQuantity = 0 - SumQty(trades, n, k, "sell")

\* a key with two sells and no buy
C15_Witness ==
    /\ pc = "done"
    /\ \E j \in 1..Len(cpResult) :
         /\ cpResult[j].buyQuantity = 0
         /\ cpResult[j].sellQuantity = 4
         /\ cpResult[j].holdingQuantity = -4

\* C16: a sell that takes the stock's sold quantity above its bought quantity
\* is folded like any other: the whole quantity is added to sellQuantity,
\* holdingQuantity goes negative, and realizedPnL grows by
\* (price - current avgBuyPrice) * quantity.
C16_OverSellIsFolded ==
    [][(/\ CPStep("sell")
        /\ SumQty(sorted, i, StockKey(sorted[i]), "sell")
             > SumQty(sorted, i, StockKey(sorted[i]), "buy")) =>
        LET t == sorted[i]
            before == FieldsOf(posMap, StockKey(t))
            after == FieldsOf(posMap', StockKey(t))
        IN  /\ MapHas(posMap', StockKey(t))
            /\ after.sellQuantity = before.sellQuantity + t.quantity
            /\ after.totalSellRevenue = before.totalSellRevenue + t.price * t.quantity
            /\ after.holdingQuantity = after.buyQuantity - after.sellQuantity
            /\ after.holdingQuantity < 0
            /\ RSub(after.realizedPnL, before.realizedPnL) = Gain(t, before.avgBuyPrice)]_vars

\* a sell beyond the holding has just been folded for a stock with an average
C16_Witness ==
    /\ pc = "cp_loop"
    /\ i > 2
    /\ sorted[i - 1].type = "sell"
    /\ LET p == FieldsOf(posMap, StockKey(sorted[i - 1]))
       IN  /\ p.buyQuantity > 0
           /\ p.holdingQuantity < 0
           /\ p.avgBuyPrice # RInt(0)

----------------------------------------------------------------------------
\* The stock key as the data model states it: the code when there is one, the
\* name otherwise

KeyAsStated(t) == IF t.stockCode = "" THEN t.stockName ELSE t.stockCode

\* total quantity of the side-records of ts at the indices in S
RECURSIVE GroupQty(_, _, _)
GroupQty(ts, S, side) ==
    IF S = {} THEN 0
    ELSE LET j == CHOOSE x \in S : TRUE
         IN  (IF ts[j].type = side THEN ts[j].quantity ELSE 0)
             + GroupQty(ts, S \ {j}, side)

\* indices of the records of ts whose stated key is k
OfKey(ts, k) == {j \in 1..Len(ts) : KeyAsStated(ts[j]) = k}

\* indices of the records of ts that carry no code and the given name
OfNameOnly(ts, name) ==
    {j \in 1..Len(ts) : ts[j].stockCode = "" /\ ts[j].stockName = name}

\* C17: one position is returned per distinct stock key (the code when not
\* empty, else the name); every record is counted in the position of its key
\* and in no other, records with one code and different names together.
C17_OnePositionPerKey ==
    pc = "done" =>
        LET n == Len(trades)
            keys == {KeyAsStated(trades[j]) : j \in 1..n}
        IN  /\ Len(cpResult) = Cardinality(keys)
            /\ \A k \in keys :
                 \E j \in 1..Len(cpResult) :
                    /\ KeyAsStated(cpResult[j]) = k
                    /\ \A j2 \in 1..Len(cpResult) : KeyAsStated(cpResult[j2]) = k => j2 = j
                    /\ cpResult[j].buyQuantity
                         = GroupQty(trades, OfKey(trades, k), "buy")
                    /\ cpResult[j].sellQuantity
                         = GroupQty(trades, OfKey(trades, k), "sell")

\* two records with one code and different names went into one position
\* while another key has its own
C17_Witness ==
    /\ pc = "done"
    /\ Len(cpResult) = 2
    /\ \E a, b \in 1..Len(trades) :
         /\ trades[a].stockCode = "C1"
         /\ trades[b].stockCode = "C1"
         /\ trades[a].stockName = "X"
         /\ trades[b].stockName = "Y"
         /\ \E j \in 1..Len(cpResult) :
              cpResult[j].buyQuantity + cpResult[j].sellQuantity
                 = trades[a].quantity + trades[b].quantity

\* C18: when records of one stock name come with a code and without, two
\* positions are returned for it, one of the code and one of the name, and
\* neither counts a record of the other group.
C18_CodeAndNameSplit ==
    pc = "done" =>
        \A a, b \in 1..Len(trades) :
            (/\ trades[a].stockName = trades[b].stockName
             /\ trades[a].stockCode # ""
             /\ trades[b].stockCode = "") =>
                LET n == Len(trades)
                    name == trades[a].stockName
                    code == trades[a].stockCode
                IN  \E j1, j2 \in 1..Len(cpResult) :
                        /\ j1 # j2
                        /\ cpResult[j1].stockCode = code
                        /\ cpResult[j2].stockCode = ""
                        /\ cpResult[j2].stockName = name
                        /\ cpResult[j2].buyQuantity + cpResult[j2].sellQuantity
                             = GroupQty(trades, OfNameOnly(trades, name), "buy")
                               + GroupQty(trades, OfNameOnly(trades, name), "sell")

----------------------------------------------------------------------------
\* The order a stable sort by date puts the input indices in: by date, and by
\* input index among the records of one date

StableOrder(ts) ==
    CHOOSE p \in Perms(Len(ts)) :
        \A a, b \in 1..Len(ts) :
            a < b => \/ DateCompare(ts[p[a]].date, ts[p[b]].date) < 0
                     \/ /\ DateCompare(ts[p[a]].date, ts[p[b]].date) = 0
                        /\ p[a] < p[b]

\* input indices of the buys of key k that a stable sort puts before input
\* index o
BuysOrderedBefore(ts, k, o) ==
    {b \in 1..Len(ts) :
        /\ KeyAsStated(ts[b]) = k
        /\ ts[b].type = "buy"
        /\ \/ DateCompare(ts[b].date, ts[o].date) < 0
           \/ DateCompare(ts[b].date, ts[o].date) = 0 /\ b < o}

\* C19: the records are folded by non-decreasing date and, within one date,
\* in input order; at the time a sell is folded, the buys folded so far are
\* the earlier-dated ones and the same-date ones placed before it in the input.
C19_FoldsInStableDateOrder ==
    [][(pc = "cp_loop" /\ i <= Len(sorted) /\ i' = i + 1) =>
        LET p == StableOrder(trades)
            t == sorted[i]
            k == KeyAsStated(t)
        IN  /\ sorted = Permuted(trades, p)
            /\ \A j \in 1..(i - 1) : DateCompare(sorted[j].date, t.date) <= 0
            /\ t.type = "sell" =>
                 FieldsOf(posMap, k).buyQuantity
                    = GroupQty(trades, BuysOrderedBefore(trades, k, p[i]), "buy")]_vars

\* an input out of date order whose later date holds a buy and then a sell of
\* one stock: the sell was folded last, after the buy
C19_Witness ==
    /\ pc = "cp_loop"
    /\ Len(trades) = 3
    /\ i = 4
    /\ trades[1].date = Date(2, 1)
    /\ trades[2].date = Date(1, 1)
    /\ trades[3].date = Date(2, 1)
    /\ trades[1].type = "buy"
    /\ trades[3].type = "sell"
    /\ KeyAsStated(trades[1]) = KeyAsStated(trades[3])
    /\ KeyAsStated(trades[2]) # KeyAsStated(trades[1])
    /\ sorted = <<trades[2], trades[1], trades[3]>>
    /\ FieldsOf(posMap, KeyAsStated(trades[3])).realizedPnL
         = RMul(RSub(RInt(trades[3].price), RInt(trades[1].price)), RInt(trades[3].quantity))

----------------------------------------------------------------------------
\* The value of an optional field as the record states it, an absent one
\* counting as 0

Stated(field) == IF field = <<>> THEN 0 ELSE field[1]

\* C20: for a roundtrip record getTradeComputed returns buyAmount =
\* buyPrice*quantity, sellAmount = sellPrice*quantity, and returnPct =
\* (realizedPnl / buyAmount) * 100 when buyAmount > 0 and 0 when buyAmount is
\* 0; returnPct is always a finite number.
C20_RoundtripReturnGuarded ==
    [][(/\ dayPc = "ds_loop"
        /\ dayI <= Len(dayTrades)
        /\ dayI' = dayI + 1
        /\ dayTrades[dayI].type = "roundtrip") =>
        LET t == dayTrades[dayI]
            c == computed'[1]
            invested == Stated(t.buyPrice) * Stated(t.quantity)
        IN  /\ c.buyAmount = invested
            /\ c.sellAmount = Stated(t.sellPrice) * Stated(t.quantity)
            /\ invested > 0 => c.returnPct = Rat(Stated(t.realizedPnl) * 100, invested)
            /\ invested = 0 => c.returnPct = RInt(0)
            /\ c.returnPct.d > 0]_vars

\* a roundtrip bought at 10 returned 100 percent, and the next one, bought at
\* price 0 with a realized P&L of 20, reported 0 percent
C20_Witness ==
    /\ dayPc = "ds_loop"
    /\ dayI = 3
    /\ dayTrades[1].type = "roundtrip"
    /\ dayTrades[2].type = "roundtrip"
    /\ dayTrades[2].buyPrice = <<0>>
    /\ dayTrades[2].quantity = <<2>>
    /\ dayTrades[2].realizedPnl = <<20>>
    /\ dayAcc[1].returns = <<RInt(100)>>
    /\ computed[1].sellAmount = 24
    /\ computed[1].returnPct = RInt(0)

----------------------------------------------------------------------------
\* The mean return as the data model states it

\* indices of the roundtrip records of ts with a positive invested amount
Invested(ts) ==
    {j \in 1..Len(ts) :
        /\ ts[j].type = "roundtrip"
        /\ Stated(ts[j].buyPrice) * Stated(ts[j].quantity) > 0}

\* sum over the indices S of realizedPnl / (buyPrice * quantity) * 100
RECURSIVE SumStatedReturn(_, _)
SumStatedReturn(ts, S) ==
    IF S = {} THEN RInt(0)
    ELSE LET j == CHOOSE x \in S : TRUE
         IN  RAdd(Rat(Stated(ts[j].realizedPnl) * 100,
                      Stated(ts[j].buyPrice) * Stated(ts[j].quantity)),
                  SumStatedReturn(ts, S \ {j}))

MeanStatedReturn(ts) ==
    IF Invested(ts) = {} THEN RInt(0)
    ELSE LET sum == SumStatedReturn(ts, Invested(ts))
         IN  Rat(sum.n, sum.d * Cardinality(Invested(ts)))

AllRoundtrip(ts) == \A j \in 1..Len(ts) : ts[j].type = "roundtrip"

\* C21: over roundtrip records, the aggregate return (getDaySummary's
\* avgReturn and Dashboard's avgReturnPct) is the mean of returnPct over the
\* records with buyAmount > 0 alone, and 0 when there is none.
C21_MeanOverInvestedOnly ==
    /\ (dayPc \in {"done", "metrics"} /\ AllRoundtrip(dayTrades)) =>
          daySummary[1].avgReturn = MeanStatedReturn(dayTrades)
    /\ dayPc = "metrics" =>
          totalAvgReturn[1] = MeanStatedReturn(SelectSeq(dayTrades, IsRoundtrip))

\* two roundtrips, one bought at price 0: the mean is the return of the other
C21_Witness ==
    /\ dayPc = "metrics"
    /\ Len(dayTrades) = 2
    /\ AllRoundtrip(dayTrades)
    /\ Cardinality(Invested(dayTrades)) = 1
    /\ dayTrades[1].buyPrice = <<0>>
    /\ dayTrades[1].realizedPnl = <<20>>
    /\ daySummary[1].avgReturn = RInt(100)
    /\ totalAvgReturn[1] = RInt(100)

\* C25: over a day's mixed records whose plain buys and sells carry no
\* realized P&L, getDaySummary's avgReturn is the mean returnPct of the day's
\* roundtrip records with buyAmount > 0: plain records do not enter it.
C25_PlainRecordsOutsideMean ==
    (/\ dayPc = "done"
     /\ \A j \in 1..Len(dayTrades) :
          dayTrades[j].type # "roundtrip" => dayTrades[j].realizedPnl = <<>>) =>
        daySummary[1].avgReturn = MeanStatedReturn(dayTrades)

----------------------------------------------------------------------------
\* indices of the records of ts that carry the given code
OfCode(ts, code) == {j \in 1..Len(ts) : ts[j].stockCode = code}

\* C23: a record without a code and a record with one are never folded into
\* the same position, whatever their names: a position of a code counts the
\* records of that code alone, a position of a name the code-less records of
\* that name alone.
C23_CodeAndNameNeverShare ==
    pc = "done" =>
        \A j \in 1..Len(cpResult) :
            LET p == cpResult[j]
                group == IF p.stockCode = "" THEN OfNameOnly(trades, p.stockName)
                                             ELSE OfCode(trades, p.stockCode)
            IN  /\ p.buyQuantity = GroupQty(trades, group, "buy")
                /\ p.sellQuantity = GroupQty(trades, group, "sell")

\* C24: a roundtrip record in the collection is folded neither as a buy nor
\* as a sell: every position has the buyQuantity, sellQuantity,
\* holdingQuantity, totalSellRevenue and realizedPnL it has for the same
\* collection without the roundtrip records.
C24_RoundtripNotFolded ==
    pc = "done" =>
        LET without == calculatePositions(SelectSeq(trades, LAMBDA t : t.type # "roundtrip"))
        IN  \A j \in 1..Len(trades) :
                LET k == KeyAsStated(trades[j])
                    with == NumbersOf(cpResult, k)
                    ref == NumbersOf(without, k)
                IN  /\ with.buyQuantity = ref.buyQuantity
                    /\ with.sellQuantity = ref.sellQuantity
                    /\ with.holdingQuantity = ref.holdingQuantity
                    /\ with.totalSellRevenue = ref.totalSellRevenue
                    /\ with.realizedPnL = ref.realizedPnL

----------------------------------------------------------------------------
\* The trade store of App

DistinctIds(ts) == \A a, b \in 1..Len(ts) : a # b => ts[a].id # ts[b].id

IdsOf(ts) == {ts[j].id : j \in 1..Len(ts)}

\* the handler that runs in this step
Ran(op) == appCall' # <<>> /\ appCall'[1].op = op

\* C22: the ids of the store stay pairwise distinct; an edit-submit replaces
\* the record of its id in place, an add appends one record with a fresh id,
\* a delete removes exactly the records of the given id.
C22_StoreKeepsIdsDistinct ==
    [][/\ DistinctIds(appTrades) => DistinctIds(appTrades')
       /\ (Ran("submit") /\ editingTrade # <<>>) =>
            LET t == appCall'[1].trade[1]
            IN  /\ Len(appTrades') = Len(appTrades)
                /\ \A j \in 1..Len(appTrades) :
                     appTrades'[j] = IF appTrades[j].id = t.id THEN t ELSE appTrades[j]
       /\ (Ran("submit") /\ editingTrade = <<>>) =>
            LET t == appCall'[1].trade[1]
            IN  /\ t.id \notin IdsOf(appTrades)
                /\ Len(appTrades') = Len(appTrades) + 1
                /\ appTrades'[Len(appTrades')] = t
                /\ \A j \in 1..Len(appTrades) : appTrades'[j] = appTrades[j]
       /\ Ran("delete") =>
            LET id == appCall'[1].id
                kept == {j \in 1..Len(appTrades) : appTrades[j].id # id}
            IN  /\ Len(appTrades') = Cardinality(kept)
                /\ id \notin IdsOf(appTrades')
                /\ \A j \in kept :
                     appTrades'[Cardinality({x \in kept : x <= j})] = appTrades[j]]_vars

\* the first of two records was edited in place after a third was added and
\* deleted again
C22_Witness ==
    /\ Len(appTrades) = 2
    /\ nextId = 4
    /\ appCall = Call("submit", 1, <<[id |-> 1, val |-> "b"]>>)
    /\ appTrades[1] = [id |-> 1, val |-> "b"]
    /\ appTrades[2].id = 2

\* C26: once handleAddTrade(trade) has run, the store holds exactly one record
\* with trade.id and it is the submitted trade, whatever handlers ran while
\* the form was open.
C26_SubmittedTradeIsStored ==
    [][(Ran("submit") /\ isFormOpen) =>
        LET t == appCall'[1].trade[1]
            J == {j \in 1..Len(appTrades') : appTrades'[j].id = t.id}
        IN  /\ Cardinality(J) = 1
            /\ \A j \in J : appTrades'[j] = t]_vars

\* C27: editingTrade and initialFormDate are never both set, and both are
\* null while the form is closed.
C27_FormStateConsistent ==
    /\ ~(editingTrade # <<>> /\ initialFormDate # <<>>)
    /\ ~isFormOpen => (editingTrade = <<>> /\ initialFormDate = <<>>)

\* an edit opened over a form that had been opened for a date
C27_Witness ==
    /\ appCall # <<>>
    /\ appCall[1].op = "edit"
    /\ isFormOpen
    /\ editingTrade # <<>>
    /\ initialFormDate = <<>>
    /\ nextId = 2
    /\ Len(appTrades) = 1

----------------------------------------------------------------------------
\* The Settings editor

\* the Settings handler that runs in this step
SetRan(op) == setCall' # <<>> /\ setCall'[1].op = op

\* C28: from settings whose dashboard and settings tabs are visible, both stay
\* visible in the draft, a toggle on either changing neither the draft nor
\* hasChanges; once the visibility effect has run activeTab is a visible tab,
\* the effect putting "dashboard" in place of a hidden active tab.
C28_DashboardAndSettingsStayVisible ==
    /\ [](/\ draftTabs["dashboard"]
          /\ draftTabs["settings"]
          /\ ~effectPending => settingsTabs[activeTab])
    /\ [][/\ (/\ ~effectPending
              /\ SetRan("toggle")
              /\ setCall'[1].id \in {"dashboard", "settings"}) =>
                 (draftTabs' = draftTabs /\ hasChanges' = hasChanges)
          /\ (effectPending /\ ~settingsTabs[activeTab]) => activeTab' = "dashboard"]_vars

\* a jump to the hidden trades tab was taken back to the dashboard, after a
\* toggle in the editor had been saved
C28_Witness ==
    /\ setCall = SetCall("navigate", "", "trades")
    /\ ~settingsTabs["trades"]
    /\ ~settingsTabs["portfolio"]
    /\ ~draftTabs["portfolio"]
    /\ activeTab = "dashboard"
    /\ ~effectPending

OrderOf(secs, id) == secs[CHOOSE j \in 1..Len(secs) : secs[j].id = id].order

SectionIds(secs) == {secs[j].id : j \in 1..Len(secs)}

Orders29(secs) == {secs[j].order : j \in 1..Len(secs)}

\* C29: a handleMoveSection call keeps the section ids and the set of
\* pairwise distinct order values; an effective call swaps the order values
\* of exactly two sections adjacent in order; moving the first section up or
\* the last one down changes nothing.
C29_MoveSwapsAdjacentOrders ==
    [][SetRan("move") =>
        LET id == setCall'[1].id
            dir == setCall'[1].dir
            ids == SectionIds(draftSections)
            changed == {x \in ids : OrderOf(draftSections', x) # OrderOf(draftSections, x)}
            first == \A x \in ids : OrderOf(draftSections, id) <= OrderOf(draftSections, x)
            last == \A x \in ids : OrderOf(draftSections, id) >= OrderOf(draftSections, x)
        IN  /\ Len(draftSections') = Len(draftSections)
            /\ SectionIds(draftSections') = ids
            /\ Orders29(draftSections') = Orders29(draftSections)
            /\ Cardinality(Orders29(draftSections')) = Len(draftSections')
            /\ IF (dir = "up" /\ first) \/ (dir = "down" /\ last)
                   THEN draftSections' = draftSections /\ hasChanges' = hasChanges
                   ELSE /\ hasChanges'
                        /\ Cardinality(changed) = 2
                        /\ id \in changed
                        /\ \A a, b \in changed :
                             a # b =>
                               /\ OrderOf(draftSections', a) = OrderOf(draftSections, b)
                               /\ ~\E c \in ids :
                                     /\ OrderOf(draftSections, c) > OrderOf(draftSections, a)
                                     /\ OrderOf(draftSections, c) < OrderOf(draftSections, b)]_vars

\* the first section was moved down twice
C29_Witness ==
    /\ setCall = SetCall("move", 1, "down")
    /\ hasChanges
    /\ OrderOf(draftSections, 1) = 2
    /\ OrderOf(draftSections, 2) = 0
    /\ OrderOf(draftSections, 3) = 1

----------------------------------------------------------------------------
\* NewsFeed

\* a fetchNews call finishes in this step
FetchDone == inFlight' = inFlight - 1

\* C30: the retry timeout is armed only with retryCount 1, 2 or 3, at most 3
\* times between two successful fetches; retryCount grows only by a failed
\* fetch that finds no usable cache, and a fetch that returns items sets it
\* to 0.
C30_AtMostThreeRetries ==
    /\ [](/\ retriesArmed <= 3
          /\ (retryTimer /\ ~retryEffectDue) => retryCount \in 1..3)
    /\ [][/\ retriesArmed' > retriesArmed =>
                (retryTimer' /\ retryCount \in 1..3 /\ retriesArmed' = retriesArmed + 1)
          /\ (retryTimer' /\ ~retryTimer) => retriesArmed' = retriesArmed + 1
          /\ retryCount' # retryCount =>
                \/ /\ retryCount' = retryCount + 1
                   /\ FetchDone
                   /\ fetchOutcome' = "failed"
                   /\ ~cacheUsable
                \/ /\ retryCount' = 0
                   /\ FetchDone
                   /\ fetchOutcome' = "items"
          /\ (FetchDone /\ fetchOutcome' = "items") => retryCount' = 0
          /\ (FetchDone /\ fetchOutcome' = "failed, cache shown") =>
                retryCount' = retryCount]_vars

\* four failures in a row without a cache: three timeouts were armed, the
\* fourth failure armed none
C30_Witness ==
    /\ retryCount = 4
    /\ retriesArmed = 3
    /\ ~retryEffectDue
    /\ ~retryTimer
    /\ fetchOutcome = "failed"

====
